---------------------------- MODULE Spec2Model ----------------------------
(***************************************************************************)
(* fmlopack.io.nro45m : the container class Nro45mFmlo.                    *)
(*                                                                         *)
(*   Spec      _sam45log : dump, demultiplex, calibrate, append segments   *)
(*   SpecDict  _sam45dict: decode the SAM entries of the PRIMARY header    *)
(*   SpecScan  fmscan    : extract a scan record from a container          *)
(*                                                                         *)
(* numpy float64 values are modelled as extended rationals <<n, d>>:       *)
(* d > 0 a finite value n/d in lowest terms, <<1,0>> = inf,                *)
(* <<-1,0>> = -inf, <<0,0>> = nan (numpy divides by zero without raising). *)
(* Rounding of finite values is not modelled.                              *)
(* Arrays are functions over 0..n-1 (numpy's 0-based indices).             *)
(***************************************************************************)
EXTENDS Integers, Sequences, FiniteSets, TLC

\* ------------------------------------------------------------------ bounds
\* physical array elements (the instrument has 32, CH_RANGE is 32x2)
NumElem == 2
\* largest scan width: scan_wid = np.max(sam['CH_RANGE'])
MaxWid == 2
\* largest scan length: scan_len = int(INTEG_TIME / IPTIM)
MaxLen == 2
\* dump lines past the expected array_max*(scan_len+3)
MaxExtra == 1
\* the dump's data tokens are the integers 0..TokMod-1
TokMod == 5
\* np.empty leaves a buffer with arbitrary contents, here any of 0..MaxGarbage
MaxGarbage == 1

\* ------------------------------------------------- float64 as <<num, den>>
Abs(x) == IF x < 0 THEN -x ELSE x

Sign(x) == IF x < 0 THEN -1 ELSE IF x > 0 THEN 1 ELSE 0

RECURSIVE Gcd(_, _)
Gcd(a, b) == IF b = 0 THEN a ELSE Gcd(b, a % b)

\* lowest terms, den >= 0; x/0 is +-inf, 0/0 is nan
Norm(n, d) ==
    IF d = 0 THEN <<Sign(n), 0>>
    ELSE LET s == IF d < 0 THEN -1 ELSE 1
             g == Gcd(Abs(n), Abs(d))
         IN  <<(s * n) \div g, (s * d) \div g>>

\* an integer literal or parsed token as float64
F(x) == <<x, 1>>

FMul(a, b) == Norm(a[1] * b[1], a[2] * b[2])

FDiv(a, b) == Norm(a[1] * b[2], a[2] * b[1])

FAdd(a, b) ==
    IF a[2] = 0 /\ b[2] = 0
    THEN (IF a[1] = b[1] THEN a ELSE <<0, 0>>)
    ELSE Norm(a[1] * b[2] + b[1] * a[2], a[2] * b[2])

FNeg(a) == <<-a[1], a[2]>>

FSub(a, b) == FAdd(a, FNeg(b))

RECURSIVE Pow10(_)
Pow10(e) == IF e <= 0 THEN 1 ELSE 10 * Pow10(e - 1)

\* 10**(0.1*att); IFATT is drawn from the multiples of 10 dB, where the
\* power is an integer
TenPow(att) == F(Pow10(att \div 10))

\* int(x): truncation toward zero of a finite value
FInt(a) == Sign(a[1]) * (Abs(a[1]) \div a[2])

\* ------------------------------------------------------------ numpy arrays
Size(a) == Cardinality(DOMAIN a)

\* a[lo:hi] for 0 <= lo <= hi <= len(a)
Slice(a, lo, hi) == [k \in 0..(hi - lo - 1) |-> a[lo + k]]

\* a[::-1]
Reversed(a) == [k \in 0..(Size(a) - 1) |-> a[Size(a) - 1 - k]]

\* whether  a[lo:lo+n] = ts  broadcasts: same length, or one value
Assignable(n, ts) == Size(ts) = n \/ Size(ts) = 1

\* a[lo:lo+n] = ts
Assign(a, lo, n, ts) ==
    [k \in DOMAIN a |->
        IF lo <= k /\ k < lo + n
        THEN (IF Size(ts) = 1 THEN ts[0] ELSE ts[k - lo])
        ELSE a[k]]

\* ------------------------------------------------------------------- state
VARIABLES
    pc,         \* position in the running method
    exc,        \* the exception the method left with, or "none"
    sam45dict,  \* self.sam45dict
    hdulist,    \* self: the HDUs of the container, in order
    args,       \* the running call's arguments
    dump_dir,   \* whether the scratch directory exists
    dump_file,  \* whether dump_dir/dump.txt exists
    proc,       \* the dump utility's run: exit status, whether it wrote dump.txt
    dump_lines, \* the lines of dump.txt read so far
    zero, r, sky, on,   \* the demultiplexer's buffers
    tsys, scan, \* calibration results
    j,          \* the append loop's index
    stdout,     \* what was printed
    hdr,        \* the PRIMARY header's cards (_sam45dict)
    ncard,      \* cards the loop of _sam45dict has passed
    dic,        \* _sam45dict's local dic
    fm          \* fmscan's locals and result

logvars == <<dump_dir, dump_file, proc, dump_lines, zero, r, sky, on, tsys,
             scan, j, stdout>>
dictvars == <<hdr, ncard, dic>>
vars == <<pc, exc, sam45dict, hdulist, args, logvars, dictvars, fm>>

\* --------------------------------------------------- _sam45log: obstable
Elems == 0..(NumElem - 1)

\* idx_to_id: 'A{}'.format(idx+1)
idx_to_id(idx) == <<"A", idx + 1>>

\* id_to_idx: int(aid.strip('A'))-1
id_to_idx(aid) == aid[2] - 1

Labels == {idx_to_id(n) : n \in Elems}

\* array_use = sam['ARRAY'] == 1
array_use(sam) == [n \in Elems |-> sam.ARRAY[n] = 1]

RECURSIVE SumTo(_, _)
SumTo(a, n) == IF n < 0 THEN 0 ELSE a[n] + SumTo(a, n - 1)

\* array_max = sam['ARRAY'].sum()
array_max(sam) == SumTo(sam.ARRAY, NumElem - 1)

RECURSIVE MaxTo(_, _)
MaxTo(a, n) ==
    LET here == IF a[n][1] > a[n][2] THEN a[n][1] ELSE a[n][2]
    IN  IF n = 0 THEN here
        ELSE LET rest == MaxTo(a, n - 1)
             IN  IF here > rest THEN here ELSE rest

\* scan_wid = np.max(sam['CH_RANGE'])
scan_wid(sam) == MaxTo(sam.CH_RANGE, NumElem - 1)

\* scan_len = int(sam['INTEG_TIME'] / sam['IPTIM'])
scan_len(sam) == FInt(FDiv(F(sam.INTEG_TIME), sam.IPTIM))

\* np.where(array_use)[0]: the in-use indices, ascending, as a 0-based array
RECURSIVE WhereTo(_, _)
WhereTo(use, n) ==
    IF n < 0 THEN <<>>
    ELSE IF use[n] THEN Append(WhereTo(use, n - 1), n)
    ELSE WhereTo(use, n - 1)

Where(use) ==
    LET s == WhereTo(use, NumElem - 1)
    IN  [k \in 0..(Len(s) - 1) |-> s[k + 1]]

\* array_idx: the selected indices (lines 195-200); only membership is used
array_idx(a, sam) ==
    IF a.all
    THEN {n \in Elems : array_use(sam)[n]}
    ELSE {id_to_idx(aid) : aid \in a.ids}

\* tamb=293.0, the default of _sam45log
Tamb == 293


\* ------------------------------------------------------ _sam45log: inputs
\* a decoded obstable: ARRAY flags, IFATT 0, 10, 20.. dB, sidebands that
\* alternate from element to element, one channel range 1..w for every
\* element, INTEG_TIME s at IPTIM = 1 s
AttPatterns == {[n \in Elems |-> 10 * n]}

SidebandPatterns ==
    {[n \in Elems |-> IF n % 2 = 0 THEN "USB" ELSE "LSB"],
     [n \in Elems |-> IF n % 2 = 0 THEN "LSB" ELSE "USB"]}

SamChoices ==
    {[ARRAY      |-> a,
      IFATT      |-> att,
      SIDBD_TYP  |-> sb,
      CH_RANGE   |-> [n \in Elems |-> <<1, w>>],
      INTEG_TIME |-> t,
      IPTIM      |-> F(1),
      OBS_BAND   |-> [n \in Elems |-> F(8 * (n + 1))],
      REST_FREQ  |-> [n \in Elems |-> F(100 + n)]] :
        a \in [Elems -> {0, 1}], att \in AttPatterns,
        sb \in SidebandPatterns, w \in 1..MaxWid, t \in 1..MaxLen}

\* array_ids: 'all' (all = TRUE) or a list of labels (ids)
ArgChoices ==
    {[all |-> TRUE, ids |-> {}]} \cup {[all |-> FALSE, ids |-> s] : s \in SUBSET Labels}

\* HDUs the earlier steps of load() appended
StubHDU(name) == [EXTNAME |-> <<name, 0>>, data |-> <<>>, header |-> <<>>]

NoFm == [pos |-> "idle"]

\* the dump's line idx for scan width w: its data tokens line.split()[3:]
\* (as the floats they parse to) and whether every one parses as a float
Tok(w, idx, k) == (idx * w + k) % TokMod

LineKinds == {"full", "single", "empty", "garbled"}

DumpLine(w, idx, kind) ==
    LET n == CASE kind = "single" -> 1
               [] kind = "empty"  -> 0
               [] OTHER           -> w
    IN  [ok   |-> kind # "garbled",
         data |-> [k \in 0..(n - 1) |-> Tok(w, idx, k)]]

\* lines the dump holds when complete
Expected(sam) == array_max(sam) * (scan_len(sam) + 3)

\* ----------------------------------------------------- _sam45log: actions
\* lines 203-207: mkdtemp, Popen, communicate.  The utility may fail to
\* start (OSError out of Popen), and otherwise ends with any exit status,
\* having written dump.txt or not; the exit status is not read.
Dump ==
    /\ pc = "start"
    /\ stdout' = Append(stdout, "dumping")
    /\ dump_dir' = TRUE
    /\ \/ /\ exc' = "OSError"
          /\ pc' = "raised"
          /\ UNCHANGED <<proc, dump_file>>
       \/ /\ \E rc \in {0, 1}, wrote \in BOOLEAN :
                /\ proc' = [ran |-> TRUE, rc |-> rc, wrote |-> wrote]
                /\ dump_file' = wrote
          /\ pc' = "dumped"
          /\ exc' = exc
    /\ UNCHANGED <<sam45dict, hdulist, args, dump_lines, zero, r, sky, on,
                   tsys, scan, j, dictvars, fm>>

\* np.empty(n)
Empty1(n, g) == [k \in 0..(n - 1) |-> g]

\* lines 210-218, and 230-233 when open() raises: f is then unbound, so
\* f.close() raises UnboundLocalError in the finally block before rmtree
Load ==
    /\ pc = "dumped"
    /\ LET n == scan_wid(sam45dict) * array_max(sam45dict)
       IN  \E g \in 0..MaxGarbage :
             /\ zero' = Empty1(n, g)
             /\ r'    = Empty1(n, g)
             /\ sky'  = Empty1(n, g)
             /\ on'   = [k \in 0..(scan_len(sam45dict) - 1) |-> Empty1(n, g)]
    /\ IF dump_file
       THEN /\ pc' = "reading"
            /\ stdout' = Append(stdout, "loading")
            /\ exc' = exc
       ELSE /\ pc' = "raised"
            /\ stdout' = stdout \o <<"loading", "removing">>
            /\ exc' = "UnboundLocalError"
    /\ UNCHANGED <<sam45dict, hdulist, args, dump_dir, dump_file, proc,
                   dump_lines, tsys, scan, j, dictvars, fm>>

\* i, j = idx // array_max, idx % array_max  (numpy integers: x // 0 = 0)
RowOf(sam, idx) == IF array_max(sam) = 0 THEN 0 ELSE idx \div array_max(sam)

ColOf(sam, idx) == IF array_max(sam) = 0 THEN 0 ELSE idx % array_max(sam)

\* length of the slice [scan_wid*j : scan_wid*(j+1)] of a buffer
SliceLen(sam) == IF array_max(sam) = 0 THEN 0 ELSE scan_wid(sam)

\* whether line idx is stored at all (lines 224-228)
Stored(sam, idx) == RowOf(sam, idx) < scan_len(sam) + 3

\* lines 221-228 raise ValueError: a token is no float, or the tokens do
\* not broadcast into the slice
LineRaises(sam, idx, line) ==
    \/ ~line.ok
    \/ Stored(sam, idx) /\ ~Assignable(SliceLen(sam), line.data)

\* lines 230-233, f bound
Finally ==
    /\ stdout' = Append(stdout, "removing")
    /\ dump_dir' = FALSE
    /\ dump_file' = FALSE

\* StoreLine with i and j exchanged in the slice bounds
StoreLine_sliceByRow(sam, idx, line, bufs) ==
    LET i  == RowOf(sam, idx)
        lo == scan_wid(sam) * i
        n  == SliceLen(sam)
    IN  CASE i = 0 -> [bufs EXCEPT !.zero = Assign(@, lo, n, line.data)]
          [] i = 1 -> [bufs EXCEPT !.r    = Assign(@, lo, n, line.data)]
          [] i = 2 -> [bufs EXCEPT !.sky  = Assign(@, lo, n, line.data)]
          [] 3 <= i /\ i < scan_len(sam) + 3 ->
                      [bufs EXCEPT !.on[i - 3] = Assign(@, lo, n, line.data)]
          [] OTHER -> bufs

\* one iteration of the loop of lines 219-228
StoreLine(sam, idx, line, bufs) ==
    LET i  == RowOf(sam, idx)
        lo == scan_wid(sam) * ColOf(sam, idx)
        n  == SliceLen(sam)
    IN  CASE i = 0 -> [bufs EXCEPT !.zero = Assign(@, lo, n, line.data)]
          [] i = 1 -> [bufs EXCEPT !.r    = Assign(@, lo, n, line.data)]
          [] i = 2 -> [bufs EXCEPT !.sky  = Assign(@, lo, n, line.data)]
          [] 3 <= i /\ i < scan_len(sam) + 3 ->
                      [bufs EXCEPT !.on[i - 3] = Assign(@, lo, n, line.data)]
          [] OTHER -> bufs

\* the dump holds a next line.  A dump has at most one short line
\* before its end.
ReadLine ==
    /\ pc = "reading"
    /\ Len(dump_lines) < Expected(sam45dict) + MaxExtra
    /\ \E kind \in LineKinds :
        LET idx  == Len(dump_lines)
            line == DumpLine(scan_wid(sam45dict), idx, kind)
            bufs == StoreLine(sam45dict, idx, line,
                              [zero |-> zero, r |-> r, sky |-> sky, on |-> on])
        IN  /\ \A k \in 1..Len(dump_lines) :
                   Size(dump_lines[k].data) = scan_wid(sam45dict)
            /\ dump_lines' = Append(dump_lines, line)
            /\ IF LineRaises(sam45dict, idx, line)
               THEN /\ Finally
                    /\ exc' = "ValueError"
                    /\ pc' = "raised"
                    /\ UNCHANGED <<zero, r, sky, on>>
               ELSE /\ zero' = bufs.zero
                    /\ r' = bufs.r
                    /\ sky' = bufs.sky
                    /\ on' = bufs.on
                    /\ UNCHANGED <<pc, exc, stdout, dump_dir, dump_file>>
    /\ UNCHANGED <<sam45dict, hdulist, args, proc, tsys, scan, j, dictvars, fm>>

\* the dump has no further line: the loop ends, finally runs
EndOfDump ==
    /\ pc = "reading"
    /\ Finally
    /\ pc' = "closed"
    /\ UNCHANGED <<exc, sam45dict, hdulist, args, proc, dump_lines, zero, r,
                   sky, on, tsys, scan, j, dictvars, fm>>

\* Att taking the first array_max entries of IFATT, not the in-use ones
Att_firstEntries(sam) ==
    [c \in 0..(scan_wid(sam) * array_max(sam) - 1) |->
        sam.IFATT[c \div scan_wid(sam)]]

\* line 236: att = np.repeat(sam['IFATT'][array_use], scan_wid)
Att(sam) ==
    [c \in 0..(scan_wid(sam) * array_max(sam) - 1) |->
        sam.IFATT[Where(array_use(sam))[c \div scan_wid(sam)]]]

\* line 237, one channel
TsysOf(tamb, att, ref, z, s) ==
    FDiv(F(tamb),
         FSub(FMul(TenPow(att), FDiv(F(ref - z), F(s - z))), F(1)))

\* lines 236-243
Calibrate ==
    /\ pc = "closed"
    /\ tsys' = [c \in DOMAIN zero |->
                  TsysOf(Tamb, Att(sam45dict)[c], r[c], zero[c], sky[c])]
    /\ scan' = on
    /\ stdout' = stdout \o <<"array_idx", "array_use">>
    /\ j' = 0
    /\ pc' = IF array_max(sam45dict) = 0 THEN "done" ELSE "append"
    /\ UNCHANGED <<exc, sam45dict, hdulist, args, dump_dir, dump_file, proc,
                   dump_lines, zero, r, sky, on, dictvars, fm>>

\* OrderSideband read at the loop index (the commented-out lines 251, 257)
OrderSideband_loopIndex(sam, jj) == sam.SIDBD_TYP[jj]

\* the sideband that decides the channel order (lines 247, 252, 258)
OrderSideband(sam, jj) == sam.SIDBD_TYP[Where(array_use(sam))[jj]]

\* lines 253 and 259
HduData(sam, jj, sc) ==
    LET w == scan_wid(sam)
    IN  [row \in DOMAIN sc |->
            IF OrderSideband(sam, jj) = "USB"
            THEN Slice(sc[row], w * jj, w * (jj + 1))
            ELSE Reversed(Slice(sc[row], w * jj, w * (jj + 1)))]

\* lines 254 and 260
HduTsys(sam, jj, ts) ==
    LET w == scan_wid(sam)
    IN  IF OrderSideband(sam, jj) = "USB"
        THEN Slice(ts, w * jj, w * (jj + 1))
        ELSE Reversed(Slice(ts, w * jj, w * (jj + 1)))

\* str(list(hdu_tsys)).strip('[]'): the values' texts, comma separated
TsysStr(a) == [k \in 1..Size(a) |-> a[k - 1]]

\* lines 263-285
ImageHDU(sam, jj, sc, ts) ==
    LET data == HduData(sam, jj, sc)
        band == sam.OBS_BAND[jj]
    IN  [EXTNAME |-> idx_to_id(Where(array_use(sam))[jj]),
         data    |-> data,
         header  |-> [NAXIS1   |-> scan_wid(sam),
                      NAXIS2   |-> Size(sc),
                      BANDWID  |-> band,
                      RESTFREQ |-> sam.REST_FREQ[jj],
                      SIDEBAND |-> sam.SIDBD_TYP[jj],
                      CDELT1   |-> FDiv(band, F(scan_wid(sam))),
                      CDELT2   |-> sam.IPTIM,
                      TAMB     |-> F(Tamb),
                      TSYS     |-> TsysStr(HduTsys(sam, jj, ts))]]

\* Selected testing the loop index (the commented-out line 248)
Selected_loopIndex(sam, a, jj) == jj \in array_idx(a, sam)

\* line 249: the in-use element j is selected
Selected(sam, a, jj) == Where(array_use(sam))[jj] \in array_idx(a, sam)

\* one iteration of the loop of lines 246-287
AppendHDU ==
    /\ pc = "append"
    /\ hdulist' = IF Selected(sam45dict, args, j)
                  THEN Append(hdulist, ImageHDU(sam45dict, j, scan, tsys))
                  ELSE hdulist
    /\ j' = j + 1
    /\ pc' = IF j + 1 < array_max(sam45dict) THEN "append" ELSE "done"
    /\ UNCHANGED <<exc, sam45dict, args, dump_dir, dump_file, proc, dump_lines,
                   zero, r, sky, on, tsys, scan, stdout, dictvars, fm>>

Init ==
    /\ pc = "start"
    /\ exc = "none"
    /\ sam45dict \in SamChoices
    /\ hdulist = <<StubHDU("PRIMARY"), StubHDU("FMLOLOG"), StubHDU("ANTLOG")>>
    /\ args \in ArgChoices
    /\ dump_dir = FALSE
    /\ dump_file = FALSE
    /\ proc = [ran |-> FALSE, rc |-> 0, wrote |-> FALSE]
    /\ dump_lines = <<>>
    /\ zero = <<>> /\ r = <<>> /\ sky = <<>> /\ on = <<>>
    /\ tsys = <<>> /\ scan = <<>>
    /\ j = 0
    /\ stdout = <<>>
    /\ hdr = <<>> /\ ncard = 0 /\ dic = <<>>
    /\ fm = NoFm

Next == Dump \/ Load \/ ReadLine \/ EndOfDump \/ Calibrate \/ AppendHDU

Spec == Init /\ [][Next]_vars


\* ------------------------------------------------------ _sam45log: claims
\* the scan segments of the container, in order
Images == SelectSeq(hdulist, LAMBDA h : h.EXTNAME[1] = "A")

\* the method has left, by return or by exception
Exited == pc \in {"done", "raised"}

\* the buffers are allocated
Allocated ==
    \/ pc \in {"reading", "closed", "append", "done"}
    \/ pc = "raised" /\ exc \in {"ValueError", "UnboundLocalError"}

\* dump line idx was stored: it was read and is not the line that raised
Taken(idx) ==
    /\ idx < Len(dump_lines)
    /\ exc = "ValueError" => idx < Len(dump_lines) - 1

\* number of in-use elements below element n
RankOf(n) == Cardinality({m \in Elems : m < n /\ sam45dict.ARRAY[m] = 1})

\* the in-use element of rank jj
ElemOfRank(jj) ==
    CHOOSE n \in Elems : sam45dict.ARRAY[n] = 1 /\ RankOf(n) = jj

\* C1: with M in-use elements, scan width W and scan length L, every stored
\* dump line i < M*(L+3) that carries W data tokens lies in channel slice
\* [W*(i mod M), W*(i mod M + 1)) of the zero buffer (i div M = 0), the
\* reference buffer (1), the sky buffer (2) or on-source row (i div M) - 3,
\* in every state from its read on: so on-source row r, element e holds the
\* tokens of line (3+r)*M + e, and no later line, in particular none with
\* index >= M*(L+3), changes it.
Thm_C1_Demultiplex ==
    Allocated =>
        LET M == Cardinality({n \in Elems : sam45dict.ARRAY[n] = 1})
            W == scan_wid(sam45dict)
            L == scan_len(sam45dict)
        IN  /\ Size(zero) = W * M /\ Size(r) = W * M /\ Size(sky) = W * M
            /\ Size(on) = L
            /\ \A i \in 0..(Len(dump_lines) - 1) :
                 (Taken(i) /\ i < M * (L + 3)
                           /\ Size(dump_lines[i + 1].data) = W) =>
                    LET t   == i \div M
                        e   == i % M
                        buf == CASE t = 0 -> zero
                                 [] t = 1 -> r
                                 [] t = 2 -> sky
                                 [] OTHER -> on[t - 3]
                    IN  \A k \in 0..(W - 1) :
                            buf[W * e + k] = dump_lines[i + 1].data[k]

\* C1 witness: two elements, width 2, a complete dump and one line more
Wit_C1_Demultiplex ==
    /\ pc = "closed"
    /\ array_max(sam45dict) = 2 /\ scan_wid(sam45dict) = 2
    /\ scan_len(sam45dict) = 2
    /\ Len(dump_lines) = Expected(sam45dict) + 1
    /\ on[1][3] = dump_lines[10].data[1]
    /\ on[1][3] # on[0][3]

\* C2: a segment of an LSB element stores every row of its demultiplexed
\* slice, and its Tsys slice, in exactly the reverse channel order; a
\* segment of a USB element stores both unchanged.
Thm_C2_SidebandOrder ==
    \A p \in 1..Len(Images) :
        LET h  == Images[p]
            n  == h.EXTNAME[2] - 1
            W  == scan_wid(sam45dict)
            lo == W * RankOf(n)
        IN  /\ DOMAIN h.data = DOMAIN scan
            /\ Len(h.header.TSYS) = W
            /\ \A k \in 0..(W - 1) :
                 LET src == IF sam45dict.SIDBD_TYP[n] = "LSB"
                            THEN lo + (W - 1 - k) ELSE lo + k
                 IN  /\ \A row \in DOMAIN scan : h.data[row][k] = scan[row][src]
                     /\ h.header.TSYS[k + 1] = tsys[src]

\* C2 witness: an LSB segment whose first row is no palindrome
Wit_C2_SidebandOrder ==
    /\ pc = "done"
    /\ \E p \in 1..Len(Images) :
         /\ sam45dict.SIDBD_TYP[Images[p].EXTNAME[2] - 1] = "LSB"
         /\ scan_wid(sam45dict) = 2
         /\ Images[p].data[0][0] # Images[p].data[0][1]
         /\ Images[p].header.TSYS[1] # Images[p].header.TSYS[2]

\* C3: when _sam45log has left, by return or by exception, the scratch
\* directory does not exist.
Claim_C3_ScratchRemoved == Exited => ~dump_dir

\* C5: every channel c of the j-th in-use element has
\* Tsys[c] = Tamb / (10^(0.1*att) * (ref[c]-zero[c])/(sky[c]-zero[c]) - 1)
\* with att the IFATT of that element and Tamb = 293, wherever the quotient
\* is defined; zero = 0, sky = 2, ref = 1, att = 0 gives -586.
Thm_C5_Tsys ==
    pc \in {"append", "done"} =>
        /\ DOMAIN tsys = DOMAIN zero
        /\ \A c \in DOMAIN tsys :
             LET n   == ElemOfRank(c \div scan_wid(sam45dict))
                 g   == 10 ^ (sam45dict.IFATT[n] \div 10)
                 num == 293 * (sky[c] - zero[c])
                 den == g * (r[c] - zero[c]) - (sky[c] - zero[c])
             IN  /\ (sky[c] # zero[c] /\ den # 0) =>
                        /\ tsys[c][2] > 0
                        /\ tsys[c][1] * den = tsys[c][2] * num
                 /\ (zero[c] = 0 /\ sky[c] = 2 /\ r[c] = 1
                        /\ sam45dict.IFATT[n] = 0) => tsys[c] = <<-586, 1>>

\* C5 witness: the worked example
Wit_C5_Tsys ==
    /\ pc = "done"
    /\ \E c \in DOMAIN tsys :
         /\ zero[c] = 0 /\ sky[c] = 2 /\ r[c] = 1
         /\ sam45dict.IFATT[ElemOfRank(c \div scan_wid(sam45dict))] = 0
         /\ tsys[c] = <<-586, 1>>

\* the dump utility ran and failed: non-zero exit, or no dump.txt
DumpFailed == proc.ran /\ (proc.rc # 0 \/ ~proc.wrote)

\* C6: after a failed dump _sam45log ends with a fatal error and appends no
\* segment; it never goes on to demultiplex and calibrate.
Claim_C6_FailedDumpIsFatal ==
    DumpFailed =>
        /\ pc \notin {"reading", "closed", "append", "done"}
        /\ Images = <<>>

\* C7: when the dump has fewer than M*(L+3) lines, _sam45log goes on to
\* append the segments and has surfaced a warning by the time it returns.
Claim_C7_ShortDumpWarns ==
    (pc = "done" /\ Len(dump_lines) < Expected(sam45dict)) =>
        /\ exc = "none"
        /\ \E k \in 1..Len(stdout) : stdout[k] = "warning"

\* the physical indices the caller selected
SelectedSet ==
    IF args.all THEN {n \in Elems : sam45dict.ARRAY[n] = 1}
    ELSE {n \in Elems : <<"A", n + 1>> \in args.ids}

\* C8: the segments appended are named 'A{n+1}' for indices n that are
\* in use and selected, in ascending n with none twice, at any time; when
\* _sam45log returns there is one for every such n.
Thm_C8_SelectedSegments ==
    /\ \A p \in 1..Len(Images) :
         LET n == Images[p].EXTNAME[2] - 1
         IN  /\ n \in Elems
             /\ sam45dict.ARRAY[n] = 1
             /\ n \in SelectedSet
             /\ \A q \in 1..(p - 1) : Images[q].EXTNAME[2] < Images[p].EXTNAME[2]
    /\ pc = "done" =>
         \A n \in Elems :
            (sam45dict.ARRAY[n] = 1 /\ n \in SelectedSet) =>
                \E p \in 1..Len(Images) : Images[p].EXTNAME = <<"A", n + 1>>

\* C8 witness: a selection by labels that names an unused element and an
\* in-use one, so that one segment is appended
Wit_C8_SelectedSegments ==
    /\ pc = "done"
    /\ ~args.all
    /\ \E n \in Elems : sam45dict.ARRAY[n] = 0 /\ n \in SelectedSet
    /\ \E n \in Elems : sam45dict.ARRAY[n] = 1 /\ n \in SelectedSet
    /\ Len(Images) = 1


\* ---------------------------------------------------------- _sam45dict
\* bound: SET lines of the obstable behind ORGFILE and VERSION
MaxCards == 3

IntKeys ==
    {"INTEG_TIME", "CALB_INT", "FREQ_INTVAL", "MAP_POS", "FREQ_SW",
     "MULT_NUM", "REF_NUM", "ARRAY", "IFATT", "FQDAT_CH", "CH_BAND",
     "CH_RANGE", "QL_POINTNUM", "BIN_NUM", "N_SPEC_WINDOW_SUB1",
     "START_CHAN_SUB1", "END_CHAN_SUB1", "CHAN_AVG_SUB1",
     "N_SPEC_WINDOW_SUB2", "START_CHAN_SUB2", "END_CHAN_SUB2",
     "CHAN_AVG_SUB2"}

FloatKeys ==
    {"IPTIM", "VELO", "MULT_OFF", "REST_FREQ", "OBS_FREQ", "FREQ_IF1",
     "OBS_BAND", "FQDAT_F0", "FQDAT_FQ", "SRC_POS", "QL_RMSLIMIT"}

ShapedKeys == {"FQDAT_CH", "CH_RANGE"}

\* the table of _sam45dict_config; shape None is <<>>
cfg ==
    [key \in IntKeys \cup FloatKeys |->
        [dtype |-> IF key \in IntKeys THEN "int" ELSE "float",
         shape |-> IF key \in ShapedKeys THEN <<32, 2>> ELSE <<>>]]

\* try: return cfg[key][prop] / except: return None
\* (None is "None" for a dtype and <<>> for a shape)
sam45dict_config(key, prop) ==
    IF key \in DOMAIN cfg THEN cfg[key][prop]
    ELSE IF prop = "dtype" THEN "None" ELSE <<>>

\* a header card: its keyword's category, and for 'KEY=v1,v2,..' the key,
\* the number of values and what the value texts are: integer literals,
\* float literals or other text
Card(tag, key, n, kind) == [tag |-> tag, key |-> key, n |-> n, kind |-> kind]

CardChoices ==
    {Card("SAM", "ARRAY", 2, "int"),
     Card("SAM", "IPTIM", 1, "float"),
     Card("SAM", "CH_RANGE", 64, "int"),
     Card("SAM", "CH_RANGE", 2, "int"),
     Card("SAM", "INTEG_TIME", 1, "float"),
     Card("SAM", "SIDBD_TYP", 2, "text"),
     Card("SAM", "SRC_NAME", 1, "text"),
     Card("ATT", "IFATT", 2, "int")}

\* the cards _obstable writes first (lines 137-138)
FirstCards == <<Card("ORGFILE", "", 1, "text"), Card("VERSION", "", 1, "text")>>

\* np.array(item, dtype) raises ValueError
CastRaises(kind, dtype) ==
    \/ dtype = "int" /\ kind # "int"
    \/ dtype = "float" /\ kind = "text"

\* .reshape(shape) raises ValueError; reshape(None) returns the array as is
ReshapeRaises(n, shape) ==
    shape # <<>> /\ n # shape[1] * shape[2]

\* lines 172-176 raise
DecodeRaises(card) ==
    \/ CastRaises(card.kind, sam45dict_config(card.key, "dtype"))
    \/ ReshapeRaises(card.n, sam45dict_config(card.key, "shape"))

\* lines 172-177: the value stored for a card; with dtype None numpy keeps
\* the texts as strings.  A one-element array is stored as its element.
Decode(card) ==
    LET dtype == sam45dict_config(card.key, "dtype")
        shape == sam45dict_config(card.key, "shape")
        full  == IF shape = <<>> THEN <<card.n>> ELSE shape
    IN  [dtype |-> IF dtype = "None" THEN "str" ELSE dtype,
         shape |-> IF full[1] = 1 THEN <<>> ELSE full]

\* DictStore leaving out the keys the table does not hold
DictStore_skipAbsent(d, card) ==
    IF card.key \in DOMAIN cfg THEN (card.key :> Decode(card)) @@ d ELSE d

\* line 177: dic[key] = ...
DictStore(d, card) == (card.key :> Decode(card)) @@ d

\* one iteration of the loop of lines 169-177
DictCard ==
    /\ pc = "dict"
    /\ ncard < Len(hdr)
    /\ ncard' = ncard + 1
    /\ LET card == hdr[ncard + 1]
       IN  IF card.tag # "SAM"
           THEN UNCHANGED <<pc, exc, dic>>
           ELSE IF DecodeRaises(card)
           THEN /\ pc' = "raised"
                /\ exc' = "ValueError"
                /\ dic' = dic
           ELSE /\ dic' = DictStore(dic, card)
                /\ UNCHANGED <<pc, exc>>
    /\ UNCHANGED <<sam45dict, hdulist, args, logvars, hdr, fm>>

\* line 179
DictReturn ==
    /\ pc = "dict"
    /\ ncard = Len(hdr)
    /\ sam45dict' = dic
    /\ pc' = "done"
    /\ UNCHANGED <<exc, hdulist, args, logvars, dictvars, fm>>

InitDict ==
    /\ pc = "dict"
    /\ exc = "none"
    /\ sam45dict = <<>>
    /\ hdulist = <<StubHDU("PRIMARY")>>
    /\ args = [all |-> TRUE, ids |-> {}]
    /\ dump_dir = FALSE
    /\ dump_file = FALSE
    /\ proc = [ran |-> FALSE, rc |-> 0, wrote |-> FALSE]
    /\ dump_lines = <<>>
    /\ zero = <<>> /\ r = <<>> /\ sky = <<>> /\ on = <<>>
    /\ tsys = <<>> /\ scan = <<>>
    /\ j = 0
    /\ stdout = <<>>
    /\ \E n \in 0..MaxCards : \E cards \in [1..n -> CardChoices] :
           hdr = FirstCards \o cards
    /\ ncard = 0
    /\ dic = <<>>
    /\ fm = NoFm

NextDict == DictCard \/ DictReturn

SpecDict == InitDict /\ [][NextDict]_vars

\* keys of the SAM cards of the header
SamKeys == {hdr[k].key : k \in {m \in 1..Len(hdr) : hdr[m].tag = "SAM"}}

\* C9 as claimed: the decoded mapping holds only keys of the type/shape
\* table; a SAM entry with another key is left out.
Claim_C9_OnlyTableKeys ==
    pc = "done" => \A key \in DOMAIN sam45dict : key \in IntKeys \cup FloatKeys

\* C9 amended: when _sam45dict returns, the mapping holds the key of every
\* SAM entry of the header and no other; a key of the table has the
\* table's element type, a key that is not in the table is kept with its
\* values as strings.
Thm_C9_EverySamKey ==
    pc = "done" =>
        /\ DOMAIN sam45dict = SamKeys
        /\ \A key \in DOMAIN sam45dict :
             /\ key \in IntKeys => sam45dict[key].dtype = "int"
             /\ key \in FloatKeys => sam45dict[key].dtype = "float"
             /\ key \notin IntKeys \cup FloatKeys => sam45dict[key].dtype = "str"

\* C9 witness: a header with a table key, a key outside the table and a
\* card of another category
Wit_C9_EverySamKey ==
    /\ pc = "done"
    /\ "SIDBD_TYP" \in DOMAIN sam45dict
    /\ "ARRAY" \in DOMAIN sam45dict
    /\ \E k \in 1..Len(hdr) : hdr[k].tag = "ATT"


\* -------------------------------------------------------------- fmscan
\* bounds: rows of the FMLOLOG table, and the arguments of fmscan
MaxRows == 6
MaxBin == 2
MaxCut == 1
MaxOffset == 2

Min(a, b) == IF a < b THEN a ELSE b

\* a[lo:hi] for lo, hi >= 0: numpy clamps both ends to len(a)
PySlice(a, lo, hi) ==
    LET l == Min(lo, Size(a))
        h == Min(hi, Size(a))
    IN  IF h <= l THEN <<>> ELSE Slice(a, l, h)

\* the FMLOLOG table of _fmlolog: one row per 100 ms tick, TIME in ticks
FmlologHDU(n) ==
    [EXTNAME |-> <<"FMLOLOG", 0>>,
     data    |-> [k \in 0..(n - 1) |-> [TIME |-> k, FREQFM |-> F(3 * k - 4)]],
     header  |-> <<>>]

\* the ANTLOG table of _antlog: a row every `step` ticks
AntlogHDU(step) ==
    [EXTNAME |-> <<"ANTLOG", 0>>,
     data    |-> [k \in 0..(MaxRows \div step) |->
                    [TIME |-> k * step, RADEC |-> <<F(k), F(10 - k)>>]],
     header  |-> <<>>]

\* the segments _sam45log appends with array_ids='all' to scan and tsys
RECURSIVE SegmentsTo(_, _, _, _)
SegmentsTo(sam, jj, sc, ts) ==
    IF jj < 0 THEN <<>>
    ELSE Append(SegmentsTo(sam, jj - 1, sc, ts), ImageHDU(sam, jj, sc, ts))

\* a container as load() builds it
Container(sam, nrows, step) ==
    LET n  == scan_wid(sam) * array_max(sam)
        sc == [row \in 0..(scan_len(sam) - 1) |->
                 [c \in 0..(n - 1) |-> Tok(n, row, c)]]
        ts == [c \in 0..(n - 1) |-> F(c + 1)]
    IN  <<StubHDU("PRIMARY"), FmlologHDU(nrows), AntlogHDU(step)>>
            \o SegmentsTo(sam, array_max(sam) - 1, sc, ts)

\* self[name]: positions of the HDUs of that name
HduAt(name) == {p \in 1..Len(hdulist) : hdulist[p].EXTNAME = name}

Hdu(name) == hdulist[CHOOSE p \in HduAt(name) : TRUE]

RECURSIVE SumF(_, _, _)
SumF(a, lo, n) == IF n = 0 THEN F(0) ELSE FAdd(a[lo + n - 1], SumF(a, lo, n - 1))

\* a.reshape((sw, b)).mean(axis=1)
MeanBins(a, sw, b) == [c \in 0..(sw - 1) |-> FDiv(SumF(a, c * b, b), F(b))]

\* lines 92-97: a[cutedge:-cutedge], or a itself when cutedge is 0
CutEdge(a, cut) ==
    IF cut = 0 THEN a
    ELSE IF Size(a) - cut <= 0 THEN <<>>
    ELSE PySlice(a, cut, Size(a) - cut)

\* np.asarray(header['TSYS'].split(','), 'f8')
TsysRaw(str) == [k \in 0..(Len(str) - 1) |-> str[k + 1]]

\* FmlologSlice without the three calibration rows skipped
FmlologSlice_noSkip(table, time_offset, len) ==
    PySlice(table, time_offset, time_offset + len)

\* line 100
FmlologSlice(table, time_offset, len) ==
    PySlice(table, time_offset + 3, time_offset + len + 3)

\* lines 102-106 for one row of the slice
FreqRange(restfreq, sw, cut, chan_wid, chan_fm) ==
    LET half == FMul(FMul(<<1, 2>>, F(sw - 2 * cut - 1)), chan_wid)
        shift == FMul(chan_fm, chan_wid)
    IN  <<FAdd(FSub(restfreq, half), shift), FAdd(FAdd(restfreq, half), shift)>>

FmStart(a) ==
    [pos |-> "called", exc |-> "none", line |-> 0,
     array_id |-> a.array_id, binning |-> a.binning, cutedge |-> a.cutedge,
     time_offset |-> a.time_offset,
     scan_wid |-> 0, scan_len |-> 0, chan_wid |-> F(0),
     scan |-> <<>>, tsys |-> <<>>, fmlolog |-> <<>>, chan_fm |-> <<>>,
     freq_range |-> <<>>, radec |-> <<>>, fmrecord |-> <<>>]

FmRaise(f, e, line) == [f EXCEPT !.pos = "raised", !.exc = e, !.line = line]

\* lines 82-106
FmFreq(f) ==
    IF HduAt(f.array_id) = {} THEN FmRaise(f, "KeyError", 82)
    ELSE
    LET hdu      == Hdu(f.array_id)
        header   == hdu.header
        sw       == header.NAXIS1 \div f.binning
        sl       == header.NAXIS2
    IN  IF sw = 0 THEN FmRaise(f, "ZeroDivisionError", 85)
        ELSE IF sw * f.binning # header.NAXIS1 THEN FmRaise(f, "ValueError", 90)
        ELSE
        LET chan_wid == FDiv(header.BANDWID, F(sw))
            scan_bin == [row \in DOMAIN hdu.data |->
                            MeanBins([c \in DOMAIN hdu.data[row] |->
                                         F(hdu.data[row][c])], sw, f.binning)]
            tsys_bin == MeanBins(TsysRaw(header.TSYS), sw, f.binning)
            fmlolog  == FmlologSlice(Hdu(<<"FMLOLOG", 0>>).data, f.time_offset, sl)
            chan_fm  == [k \in DOMAIN fmlolog |-> FDiv(fmlolog[k].FREQFM, chan_wid)]
        IN  [f EXCEPT
                !.pos = "freq",
                !.scan_wid = sw, !.scan_len = sl, !.chan_wid = chan_wid,
                !.scan = [row \in DOMAIN scan_bin |-> CutEdge(scan_bin[row], f.cutedge)],
                !.tsys = CutEdge(tsys_bin, f.cutedge),
                !.fmlolog = fmlolog,
                !.chan_fm = chan_fm,
                !.freq_range = [k \in DOMAIN fmlolog |->
                                  FreqRange(header.RESTFREQ, sw, f.cutedge,
                                            chan_wid, chan_fm[k])]]

\* the call, through line 106
FmCall ==
    /\ pc = "fmscan"
    /\ fm.pos = "idle"
    /\ \E id \in Labels, b \in 1..MaxBin, c \in 0..MaxCut, t \in 0..MaxOffset :
         fm' = FmFreq(FmStart([array_id |-> id, binning |-> b, cutedge |-> c,
                               time_offset |-> t]))
    /\ UNCHANGED <<pc, exc, sam45dict, hdulist, args, logvars, dictvars>>

\* lines 109-115: the ANTLOG rows from the first to the last time of the
\* slice, resampled on the 100 ms grid: one row per tick from the first to
\* the last such row, the maximum of the tick's rows, nan for a tick
\* without one
Resampled(antlog, tmin, tmax) ==
    LET rows == {k \in DOMAIN antlog : tmin <= antlog[k].TIME /\ antlog[k].TIME <= tmax}
    IN  IF rows = {} THEN <<>>
        ELSE LET first == CHOOSE k \in rows : \A m \in rows : antlog[k].TIME <= antlog[m].TIME
                 last  == CHOOSE k \in rows : \A m \in rows : antlog[m].TIME <= antlog[k].TIME
                 t0    == antlog[first].TIME
             IN  [b \in 0..(antlog[last].TIME - t0) |->
                    IF \E k \in rows : antlog[k].TIME = t0 + b
                    THEN antlog[CHOOSE k \in rows : antlog[k].TIME = t0 + b].RADEC
                    ELSE <<(<<0, 0>>), (<<0, 0>>)>>]

\* With an empty slice time_min and time_max are NaT; what slicing by NaT
\* does is left to pandas: it raises, or selects no row.
FmRadec ==
    /\ pc = "fmscan"
    /\ fm.pos = "freq"
    /\ IF fm.fmlolog = <<>>
       THEN \/ fm' = FmRaise(fm, "Exception", 113)
            \/ fm' = [fm EXCEPT !.pos = "radec", !.radec = <<>>]
       ELSE LET tmin == fm.fmlolog[0].TIME
                tmax == fm.fmlolog[Size(fm.fmlolog) - 1].TIME
            IN  fm' = [fm EXCEPT !.pos = "radec",
                         !.radec = Resampled(Hdu(<<"ANTLOG", 0>>).data, tmin, tmax)]
    /\ UNCHANGED <<pc, exc, sam45dict, hdulist, args, logvars, dictvars>>

\* lines 118-129: np.rec.fromarrays raises ValueError unless the five
\* columns have the same number of rows
FmRecord ==
    /\ pc = "fmscan"
    /\ fm.pos = "radec"
    /\ LET n == Size(fm.chan_fm)
       IN  IF fm.scan_len # n \/ Size(fm.radec) # n
           THEN fm' = FmRaise(fm, "ValueError", 127)
           ELSE fm' = [fm EXCEPT !.pos = "returned",
                         !.fmrecord =
                            [k \in 0..(n - 1) |->
                               [CHANFM    |-> FInt(fm.chan_fm[k]),
                                FREQRANGE |-> fm.freq_range[k],
                                INTERVAL  |-> Hdu(fm.array_id).header.CDELT2,
                                DATETIME  |-> fm.fmlolog[k].TIME,
                                RADEC     |-> fm.radec[k]]]]
    /\ UNCHANGED <<pc, exc, sam45dict, hdulist, args, logvars, dictvars>>

InitScan ==
    /\ pc = "fmscan"
    /\ exc = "none"
    /\ sam45dict \in {s \in SamChoices : s.SIDBD_TYP[0] = "USB"}
    /\ \E nrows \in 0..MaxRows, step \in {1, 2} :
           hdulist = Container(sam45dict, nrows, step)
    /\ args = [all |-> TRUE, ids |-> {}]
    /\ dump_dir = FALSE
    /\ dump_file = FALSE
    /\ proc = [ran |-> FALSE, rc |-> 0, wrote |-> FALSE]
    /\ dump_lines = <<>>
    /\ zero = <<>> /\ r = <<>> /\ sky = <<>> /\ on = <<>>
    /\ tsys = <<>> /\ scan = <<>>
    /\ j = 0
    /\ stdout = <<>>
    /\ hdr = <<>> /\ ncard = 0 /\ dic = <<>>
    /\ fm = NoFm

NextScan == FmCall \/ FmRadec \/ FmRecord

SpecScan == InitScan /\ [][NextScan]_vars

\* the call found its segment and asks for rows past the end of the table
Overrun ==
    /\ fm.pos # "idle"
    /\ HduAt(fm.array_id) # {}
    /\ fm.time_offset + Hdu(fm.array_id).header.NAXIS2 + 3
         > Size(Hdu(<<"FMLOLOG", 0>>).data)

\* C4: a call of fmscan whose time_offset + scan_len + 3 exceeds the number
\* of rows of the FMLOLOG table raises, it never goes on with a slice of
\* the rows that exist, and what it raises from the slice on is
\* ExtractionError.
Claim_C4_OverrunRaises ==
    Overrun => /\ fm.pos = "raised"
               /\ fm.line >= 100 => fm.exc = "ExtractionError"

\* C10: past line 106, for every scan row k whose modulation-log row
\* time_offset+3+k exists, the frequency pair of row k is
\* (RESTFREQ - h + f_k, RESTFREQ + h + f_k), h half of
\* (scan_wid - 2*cutedge - 1) channel widths and f_k the FREQFM of that
\* log row; a returned record has all scan_len rows and carries the pairs.
Thm_C10_FreqRange ==
    fm.pos \in {"freq", "radec", "returned"} =>
        LET header   == Hdu(fm.array_id).header
            table    == Hdu(<<"FMLOLOG", 0>>).data
            sw       == header.NAXIS1 \div fm.binning
            chan_wid == FDiv(header.BANDWID, F(sw))
            h        == FMul(<<1, 2>>, FMul(F(sw - 2 * fm.cutedge - 1), chan_wid))
            Pair(k)  == LET f_k == table[fm.time_offset + 3 + k].FREQFM
                        IN  <<FAdd(FSub(header.RESTFREQ, h), f_k),
                              FAdd(FAdd(header.RESTFREQ, h), f_k)>>
        IN  /\ \A k \in 0..(header.NAXIS2 - 1) :
                  fm.time_offset + 3 + k < Size(table) =>
                      /\ k \in DOMAIN fm.freq_range
                      /\ fm.freq_range[k] = Pair(k)
            /\ fm.pos = "returned" =>
                  /\ Size(fm.fmrecord) = header.NAXIS2
                  /\ \A k \in 0..(header.NAXIS2 - 1) :
                        fm.fmrecord[k].FREQRANGE = Pair(k)

\* a returned record of two rows with cutedge=0, binning=1 and a nonzero
\* time_offset: the pairs bracket RESTFREQ by half of scan_wid-1 channel
\* widths, each shifted by its own row's FREQFM
Wit_C10_FreqRange ==
    /\ fm.pos = "returned"
    /\ fm.cutedge = 0 /\ fm.binning = 1 /\ fm.time_offset = 1
    /\ fm.scan_wid = 2
    /\ Size(fm.fmrecord) = 2
    /\ LET header == Hdu(fm.array_id).header
           lo     == fm.freq_range[0][1]
           hi     == fm.freq_range[0][2]
       IN  /\ FSub(hi, lo) = fm.chan_wid
           /\ FAdd(hi, lo) = FMul(F(2), FAdd(header.RESTFREQ, F(8)))
    /\ fm.freq_range[0] # fm.freq_range[1]

\* ------------------------------------------- _sam45log: header indices
\* C11: every appended segment named 'A{n+1}' records as SIDEBAND, BANDWID
\* and RESTFREQ the configuration entries at index n, so the recorded
\* SIDEBAND is the value SIDBD_TYP[n] that decided the reversal of its
\* channels (C2); for every pattern of ARRAY, also when the in-use
\* elements are not the first ones.
Claim_C11_HeaderIndex ==
    \A p \in 1..Len(Images) :
        LET h == Images[p]
            n == h.EXTNAME[2] - 1
        IN  /\ h.header.SIDEBAND = sam45dict.SIDBD_TYP[n]
            /\ h.header.BANDWID = sam45dict.OBS_BAND[n]
            /\ h.header.RESTFREQ = sam45dict.REST_FREQ[n]

==========================================================================
